---- MODULE Spec2Model ----
(***************************************************************************)
(* A model of the identity allocator (unique_id.rs), the broadcast/reduce  *)
(* shape relation and its stride routines (shapes/broadcasts.rs), the      *)
(* broadcast view operation on tensors (tensor_ops/broadcast_to.rs), and   *)
(* the tape: the operations that record on it (tensor_ops/impl_mean.rs,    *)
(* leaky_relu, prelu, nn/transformer/encoder.rs), the backward pass and    *)
(* the optimizer step (optim/sgd.rs).                                      *)
(***************************************************************************)
EXTENDS Integers, Naturals, Sequences, FiniteSets, TLC

VARIABLES
    COUNTER,    \* unique_id.rs:9   static COUNTER: AtomicUsize
    pc,         \* per thread: position inside / outside a unique_id() call
    ret,        \* per thread: the UniqueId its last call returned (None before)
    before,     \* per thread: COUNTER as it stood when the call's fetch_add took effect
    floor,      \* per thread: greatest id already returned when the call started
    maxRet,     \* greatest id any finished call has returned (-1 when none)
    issued,     \* id -> number of calls that were given this id
    calls,      \* per thread: number of unique_id() calls started
    stack,      \* macro expander: pending macro invocations, innermost first
    impls,      \* macro expander: the trait impls declared so far, in order
    self,       \* the tensor handle a try_broadcast_like call consumes
    out,        \* the tensor handle it returns (NoTensor when it panicked)
    res,        \* outcome of the last shape operation
    dstArg,     \* the dst: &Dst argument of the last try_broadcast_like
    rel,        \* the (Src, Dst, Ax) impl the last call was resolved with
    red,        \* the shape returned by the last reduced() call
    hand,       \* tape run: the tensor handle the forward pass holds
    other,      \* tape run: the handle of the second operand of a binary operation
    made,       \* tape run: the tensors created so far, in order of creation
    queue,      \* backward: the recorded operations still to replay, last one next
    ran,        \* backward: the operations replayed so far, in order of execution
    store,      \* backward: the gradient store (of the call in progress, or returned)
    sgd,        \* Sgd: the module, its configuration and the position inside step
    enc,        \* TransformerEncoderBlock::forward: the handles it passed on
    merged      \* the two tapes the last binary operation merged

vars == <<COUNTER, pc, ret, before, floor, maxRet, issued, calls,
          stack, impls, self, out, res, dstArg, rel, red,
          hand, other, made, queue, ran, store, sgd, enc, merged>>

idVars    == <<COUNTER, pc, ret, before, floor, maxRet, issued, calls>>
macroVars == <<stack, impls>>
shapeVars == <<self, out, res, dstArg, rel, red>>
tapeVars  == <<hand, other, made, queue, ran, store, sgd, enc, merged>>

None == "None"

(***************************************************************************)
(* Bounds of the model.                                                    *)
(***************************************************************************)
\* width in bits of the usize the counter is stored in (scaled down)
W == 3
\* number of threads that call unique_id()
NumThreads == 3
\* number of unique_id() calls in a run of the allocator
MaxCalls == 9

Modulus == 2 ^ W
Threads == 1 .. NumThreads
Ids     == 0 .. (Modulus - 1)

(***************************************************************************)
(* unique_id.rs                                                            *)
(***************************************************************************)
\* a fetch-and-add that forgets to store the incremented value
fetch_add_lost(cur, val) == [old |-> cur, new |-> cur]

\* AtomicUsize::fetch_add(val, Relaxed): returns the previous value and stores
\* previous + val, wrapping around on overflow of the usize.
fetch_add(cur, val) == [old |-> cur, new |-> (cur + val) % Modulus]

\* A thread enters unique_id().
Invoke(t) ==
    /\ pc[t] = "idle"
    /\ pc' = [pc EXCEPT ![t] = "calling"]
    /\ calls' = [calls EXCEPT ![t] = @ + 1]
    /\ floor' = [floor EXCEPT ![t] = maxRet]
    /\ UNCHANGED <<COUNTER, ret, before, maxRet, issued>>

\* unique_id.rs:10   UniqueId(COUNTER.fetch_add(1, Relaxed)): one atomic step.
unique_id(t) ==
    /\ pc[t] = "calling"
    /\ LET r == fetch_add(COUNTER, 1) IN
        /\ COUNTER' = r.new
        /\ ret' = [ret EXCEPT ![t] = r.old]
        /\ issued' = [issued EXCEPT ![r.old] = @ + 1]
    /\ before' = [before EXCEPT ![t] = COUNTER]
    /\ pc' = [pc EXCEPT ![t] = "fetched"]
    /\ UNCHANGED <<floor, maxRet, calls>>

\* The call returns its UniqueId to the caller.
Return(t) ==
    /\ pc[t] = "fetched"
    /\ pc' = [pc EXCEPT ![t] = "idle"]
    /\ maxRet' = IF ret[t] > maxRet THEN ret[t] ELSE maxRet
    /\ UNCHANGED <<COUNTER, ret, before, floor, issued, calls>>

RECURSIVE SumOver(_, _)
SumOver(f, S) ==
    IF S = {} THEN 0
    ELSE LET x == CHOOSE y \in S : TRUE IN f[x] + SumOver(f, S \ {x})

TotalCalls == SumOver(calls, Threads)

(***************************************************************************)
(* shapes/broadcasts.rs: the macros that declare the reduce/broadcast      *)
(* relation.  A shape type is the sequence of its dimension parameters, an *)
(* axis-set type is its name (Axis, Axes2, ...) with its indices.          *)
(***************************************************************************)
\* broadcasts.rs:77   the dimension names handed to broadcast_to_all!
AllDims == <<"A", "B", "C", "D", "E", "F">>
\* broadcasts.rs:77   the axis-set type names handed to broadcast_to_all!
AllAxes == <<"()", "Axis", "Axes2", "Axes3", "Axes4", "Axes5", "Axes6">>

\* broadcasts.rs:48-51   length!: counts its tokens
RECURSIVE length(_)
length(xs) == IF xs = <<>> THEN 0 ELSE 1 + length(Tail(xs))

\* One declared impl: `impl <trait><src, axis<ax>> for dst`.  kind "tuple" is the
\* impl over tuples of Dim parameters, kind "array" the one over [usize; N].
Impl(trait, kind, src, dst, axis, ax) ==
    [trait |-> trait, kind |-> kind, src |-> src, dst |-> dst,
     srcNum |-> length(src), dstNum |-> length(dst), axis |-> axis, ax |-> ax]

\* One pending macro invocation; the fields a macro does not take are empty.
Inv(mac, at, s1, s2, x1, x2, axis, ax, axes) ==
    [mac |-> mac, at |-> at, s1 |-> s1, s2 |-> s2, x1 |-> x1, x2 |-> x2,
     axis |-> axis, ax |-> ax, axes |-> axes]

\* broadcasts.rs:21-34   broadcast_to_array!: the impl for [usize; DstNum]
broadcast_to_array(src, dst, axis, ax) ==
    <<Impl("ReduceShapeTo", "array", src, dst, axis, ax)>>

\* broadcasts.rs:36-46   broadcast_to!: nothing for the empty axis-set `()<>`,
\* else the tuple impl followed by the array impl
broadcast_to(src, dst, axis, ax) ==
    IF axis = "()" /\ ax = <<>>
    THEN <<>>
    ELSE <<Impl("ReduceShapeTo", "tuple", src, dst, axis, ax)>>
         \o broadcast_to_array(src, dst, axis, ax)

\* broadcast_to_all! that numbers a new axis by the length of s1
broadcast_to_all_s1(i) ==
    [emit |-> broadcast_to(i.s1, i.s2, Head(i.axes), i.ax),
     push |-> IF i.x1 = <<>> THEN <<>>
              ELSE <<Inv("broadcast_to_all", FALSE, i.s1, Append(i.s2, Head(i.x1)),
                         Tail(i.x1), <<>>, "", Append(i.ax, length(i.s1)), Tail(i.axes)),
                     Inv("broadcast_to_all", FALSE, Append(i.s1, Head(i.x1)),
                         Append(i.s2, Head(i.x1)), Tail(i.x1), <<>>, "", i.ax, i.axes)>>]
\* broadcast_to_all! that forgets the branch keeping the dimension in s1
broadcast_to_all_one(i) ==
    [emit |-> broadcast_to(i.s1, i.s2, Head(i.axes), i.ax),
     push |-> IF i.x1 = <<>> THEN <<>>
              ELSE <<Inv("broadcast_to_all", FALSE, i.s1, Append(i.s2, Head(i.x1)),
                         Tail(i.x1), <<>>, "", Append(i.ax, length(i.s2)), Tail(i.axes))>>]

\* broadcasts.rs:56-75   broadcast_to_all!([s1] [s2] [ax] [shs] [axis axes..]):
\* declares (s1, s2, axis<ax>), then, while a dimension name is left, recurses
\* once with the name added to s2 as a broadcast axis and once with it added
\* to both s1 and s2.  x1 holds the names left (shs).
broadcast_to_all(i) ==
    [emit |-> broadcast_to(i.s1, i.s2, Head(i.axes), i.ax),
     push |-> IF i.x1 = <<>> THEN <<>>
              ELSE <<Inv("broadcast_to_all", FALSE, i.s1, Append(i.s2, Head(i.x1)),
                         Tail(i.x1), <<>>, "", Append(i.ax, length(i.s2)), Tail(i.axes)),
                     Inv("broadcast_to_all", FALSE, Append(i.s1, Head(i.x1)),
                         Append(i.s2, Head(i.x1)), Tail(i.x1), <<>>, "", i.ax, i.axes)>>]

\* broadcasts.rs:106-120   broadcast_bottom_top!: the tuple impl, and for a
\* source of rank >= 1 the array impl too
broadcast_bottom_top(trait, axis, ax, sh1, sh2) ==
    IF sh1 = <<>>
    THEN <<Impl(trait, "tuple", sh1, sh2, axis, ax)>>
    ELSE <<Impl(trait, "tuple", sh1, sh2, axis, ax),
           Impl(trait, "array", sh1, sh2, axis, ax)>>

\* broadcasts.rs:122-130   broadcast_all_top!([sh1] [sh2] [sh3..] ax): x1 holds sh3
broadcast_all_top(i) ==
    [emit |-> broadcast_bottom_top("ReduceTopDimsTo", i.axis, i.ax, i.s1, i.s2),
     push |-> IF i.x1 = <<>> THEN <<>>
              ELSE <<Inv("broadcast_all_top", FALSE, Append(i.s1, Head(i.x1)),
                         Append(i.s2, Head(i.x1)), Tail(i.x1), <<>>, i.axis, i.ax, <<>>)>>]

\* broadcast_all_bottom! that recurses without shifting the axes
broadcast_all_bottom_noshift(i) ==
    IF ~i.at
    THEN [emit |-> <<>>,
          push |-> <<Inv("broadcast_all_bottom", TRUE, <<>>, i.s1, i.s1 \o i.s2, i.s2,
                         i.axis, i.ax, <<>>)>>]
    ELSE [emit |-> broadcast_bottom_top("ReduceBottomDimsTo", i.axis, i.ax, i.s1, i.s2),
          push |-> IF i.x2 = <<>> THEN <<>>
                   ELSE <<Inv("broadcast_all_bottom", TRUE, Append(i.s1, Head(i.x1)),
                              Append(i.s2, Head(i.x2)), Tail(i.x1), Tail(i.x2), i.axis,
                              i.ax, <<>>)>>]

\* broadcasts.rs:138-153   broadcast_all_bottom!: the entry rule ([sh1] [sh2] axis<axes>)
\* rewrites to the @ rule with sh1 = [], sh2 = [sh1], x1 = [sh1 sh2], x2 = [sh2];
\* the @ rule declares (sh1, sh2, axis<axes>) and, while x2 has a name left, moves
\* one name of x1 to sh1 and one of x2 to sh2 with every axis index raised by 1.
broadcast_all_bottom(i) ==
    IF ~i.at
    THEN [emit |-> <<>>,
          push |-> <<Inv("broadcast_all_bottom", TRUE, <<>>, i.s1, i.s1 \o i.s2, i.s2,
                         i.axis, i.ax, <<>>)>>]
    ELSE [emit |-> broadcast_bottom_top("ReduceBottomDimsTo", i.axis, i.ax, i.s1, i.s2),
          push |-> IF i.x2 = <<>> THEN <<>>
                   ELSE <<Inv("broadcast_all_bottom", TRUE, Append(i.s1, Head(i.x1)),
                              Append(i.s2, Head(i.x2)), Tail(i.x1), Tail(i.x2), i.axis,
                              [k \in 1 .. Len(i.ax) |-> i.ax[k] + 1], <<>>)>>]

\* broadcasts.rs:15, 99-104   the impls written by hand for the rank-0 shape ()
HandWritten ==
    <<Impl("ReduceShapeTo", "tuple", <<>>, <<>>, "Axis", <<0>>),
      Impl("ReduceTopDimsTo", "tuple", <<>>, <<>>, "Axis", <<0>>),
      Impl("ReduceBottomDimsTo", "tuple", <<>>, <<>>, "Axis", <<0>>)>>

Prefix(xs, n) == SubSeq(xs, 1, n)
Suffix(xs, n) == SubSeq(xs, n + 1, Len(xs))
UpTo(n) == [k \in 1 .. n |-> k - 1]

\* broadcasts.rs:77, 131-136, 154-159   the macro invocations of the file, in order
TopLevel ==
    <<Inv("broadcast_to_all", FALSE, <<>>, <<>>, AllDims, <<>>, "", <<>>, AllAxes)>>
    \o [k \in 1 .. Len(AllDims) |->
          Inv("broadcast_all_top", FALSE, <<>>, Prefix(AllDims, k), Suffix(AllDims, k),
              <<>>, AllAxes[k + 1], UpTo(k), <<>>)]
    \o [k \in 1 .. Len(AllDims) |->
          Inv("broadcast_all_bottom", FALSE, Prefix(AllDims, k), Suffix(AllDims, k),
              <<>>, <<>>, AllAxes[k + 1], UpTo(k), <<>>)]

\* One step of the macro expander: the innermost pending invocation is replaced
\* by its expansion e, the impls it declares are added to the crate.
Rewrite(e) ==
    /\ impls' = impls \o e.emit
    /\ stack' = e.push \o Tail(stack)
    /\ UNCHANGED <<idVars, shapeVars, tapeVars>>

ExpandBroadcastToAll ==
    /\ stack # <<>>
    /\ Head(stack).mac = "broadcast_to_all"
    /\ Rewrite(broadcast_to_all(Head(stack)))

ExpandBroadcastAllTop ==
    /\ stack # <<>>
    /\ Head(stack).mac = "broadcast_all_top"
    /\ Rewrite(broadcast_all_top(Head(stack)))

ExpandBroadcastAllBottom ==
    /\ stack # <<>>
    /\ Head(stack).mac = "broadcast_all_bottom"
    /\ Rewrite(broadcast_all_bottom(Head(stack)))

Expansion(i) ==
    CASE i.mac = "broadcast_to_all"     -> broadcast_to_all(i)
      [] i.mac = "broadcast_all_top"    -> broadcast_all_top(i)
      [] i.mac = "broadcast_all_bottom" -> broadcast_all_bottom(i)

\* The impls one invocation declares once it is expanded to the end.
RECURSIVE ExpandAll(_)
ExpandAll(i) ==
    LET e == Expansion(i) IN
    e.emit \o (IF Len(e.push) >= 1 THEN ExpandAll(e.push[1]) ELSE <<>>)
           \o (IF Len(e.push) >= 2 THEN ExpandAll(e.push[2]) ELSE <<>>)

RECURSIVE Flatten(_)
Flatten(xss) == IF xss = <<>> THEN <<>> ELSE Head(xss) \o Flatten(Tail(xss))

\* The impls the file declares once every macro is expanded.
Declared == HandWritten \o Flatten([k \in 1 .. Len(TopLevel) |-> ExpandAll(TopLevel[k])])

(***************************************************************************)
(* Shapes, tensors and the stride routines of shapes/broadcasts.rs.        *)
(* A dimension is either Const<M> (const = TRUE) or a usize known at run   *)
(* time; a shape is the sequence of its dimensions.  Indices are 0-based   *)
(* as in the source: xs[i] of the source is At(xs, i).                     *)
(***************************************************************************)
\* greatest size of a dimension
MaxDim == 2
\* greatest rank of a tensor in the runs of the shape operations
MaxTensorRank == 3

At(xs, i) == xs[i + 1]

Dim(const, size) == [const |-> const, size |-> size]
\* the dimensions of the runs: a usize of any size, and Const<MaxDim>
Dims == {Dim(FALSE, n) : n \in 1 .. MaxDim} \cup {Dim(TRUE, MaxDim)}
ShapesOfRank(r) == [1 .. r -> Dims]

\* Shape::concrete: the sizes of the dimensions
concrete(shape) == [k \in 1 .. Len(shape) |-> shape[k].size]
\* the type of a shape: Const<M> keeps M, usize has no size in its type
DimType(d) == IF d.const THEN [const |-> TRUE, m |-> d.size] ELSE [const |-> FALSE, m |-> 0]
TypeOf(shape) == [k \in 1 .. Len(shape) |-> DimType(shape[k])]

\* Shape::strides: row-major strides of a shape
RECURSIVE NumElements(_)
NumElements(sizes) == IF sizes = <<>> THEN 1 ELSE Head(sizes) * NumElements(Tail(sizes))
strides(shape) ==
    [k \in 1 .. Len(shape) |-> NumElements(SubSeq(concrete(shape), k + 1, Len(shape)))]

\* Shape::from_concrete: Some(the shape of type `ty` with the given sizes), or None
\* (ok = FALSE) when a size differs from a Const dimension of the type
from_concrete(ty, sizes) ==
    IF \A k \in 1 .. Len(ty) : ty[k].const => sizes[k] = ty[k].m
    THEN [ok |-> TRUE, shape |-> [k \in 1 .. Len(ty) |-> Dim(ty[k].const, sizes[k])]]
    ELSE [ok |-> FALSE, shape |-> <<>>]

\* broadcasts.rs:177, 189, 213   Ax::as_array().into_iter().any(|x| x == i as isize)
InAx(ax, i) == \E k \in 1 .. Len(ax) : ax[k] = i

\* the shape an impl `Dst: ReduceShapeTo<Src, Ax>` gives Src for a shape of type Dst:
\* Src names a subsequence of the dimension parameters of Dst
Position(xs, x) == CHOOSE k \in 1 .. Len(xs) : xs[k] = x
SrcOf(e, dst) == [k \in 1 .. Len(e.src) |-> dst[Position(e.dst, e.src[k])]]

\* the impls of Declared for tuple shapes, by trait
ImplsOf(trait) ==
    {Declared[k] : k \in {n \in 1 .. Len(Declared) :
                            Declared[n].trait = trait /\ Declared[n].kind = "tuple"}}
ReduceShapeTo      == ImplsOf("ReduceShapeTo")
ReduceTopDimsTo    == ImplsOf("ReduceTopDimsTo")
ReduceBottomDimsTo == ImplsOf("ReduceBottomDimsTo")
\* check whose source index j is never advanced
RECURSIVE check_loop_noinc(_, _, _, _, _)
check_loop_noinc(src_dims, dst_dims, ax, i, j) ==
    IF i = Len(dst_dims) THEN [ok |-> TRUE, oob |-> FALSE, j |-> j]
    ELSE IF ~InAx(ax, i)
         THEN IF j >= Len(src_dims) THEN [ok |-> FALSE, oob |-> TRUE, j |-> j]
              ELSE IF At(dst_dims, i) # At(src_dims, j)
                   THEN [ok |-> FALSE, oob |-> FALSE, j |-> j]
                   ELSE check_loop_noinc(src_dims, dst_dims, ax, i + 1, j)
         ELSE check_loop_noinc(src_dims, dst_dims, ax, i + 1, j)
check_noinc(src, dst, ax) == check_loop_noinc(concrete(src), concrete(dst), ax, 0, 0)

\* broadcasts.rs:176-181   the loop of check from iteration i with source index j:
\* ok = FALSE is a panic, of assert_eq! (oob = FALSE) or of an index out of the
\* bounds of src_dims (oob = TRUE)
RECURSIVE check_loop(_, _, _, _, _)
check_loop(src_dims, dst_dims, ax, i, j) ==
    IF i = Len(dst_dims) THEN [ok |-> TRUE, oob |-> FALSE, j |-> j]
    ELSE IF ~InAx(ax, i)
         THEN IF j >= Len(src_dims) THEN [ok |-> FALSE, oob |-> TRUE, j |-> j]
              ELSE IF At(dst_dims, i) # At(src_dims, j)
                   THEN [ok |-> FALSE, oob |-> FALSE, j |-> j]
                   ELSE check_loop(src_dims, dst_dims, ax, i + 1, j + 1)
         ELSE check_loop(src_dims, dst_dims, ax, i + 1, j)

\* broadcasts.rs:171-182   BroadcastStridesTo::check(&self, dst)
check(src, dst, ax) == check_loop(concrete(src), concrete(dst), ax, 0, 0)

\* broadcast_strides that writes the stride of source axis j at index j
RECURSIVE broadcast_strides_loop_packed(_, _, _, _, _)
broadcast_strides_loop_packed(old, new_strides, ax, i, j) ==
    IF i = Len(new_strides) THEN [strides |-> new_strides, oob |-> FALSE, j |-> j]
    ELSE IF ~InAx(ax, i)
         THEN IF j >= Len(old) THEN [strides |-> new_strides, oob |-> TRUE, j |-> j]
              ELSE broadcast_strides_loop_packed(
                       old, [new_strides EXCEPT ![j + 1] = At(old, j)], ax, i + 1, j + 1)
         ELSE broadcast_strides_loop_packed(old, new_strides, ax, i + 1, j)
broadcast_strides_packed(old, dstNum, ax) ==
    broadcast_strides_loop_packed(old, [k \in 1 .. dstNum |-> 0], ax, 0, 0)

\* broadcasts.rs:187-193   the loop of broadcast_strides
RECURSIVE broadcast_strides_loop(_, _, _, _, _)
broadcast_strides_loop(old, new_strides, ax, i, j) ==
    IF i = Len(new_strides) THEN [strides |-> new_strides, oob |-> FALSE, j |-> j]
    ELSE IF ~InAx(ax, i)
         THEN IF j >= Len(old) THEN [strides |-> new_strides, oob |-> TRUE, j |-> j]
              ELSE broadcast_strides_loop(
                       old, [new_strides EXCEPT ![i + 1] = At(old, j)], ax, i + 1, j + 1)
         ELSE broadcast_strides_loop(old, new_strides, ax, i + 1, j)

\* broadcast_strides whose new_strides start at 1, the stride of a dense axis
broadcast_strides_dense(old, dstNum, ax) ==
    broadcast_strides_loop(old, [k \in 1 .. dstNum |-> 1], ax, 0, 0)

\* broadcasts.rs:184-195   BroadcastStridesTo::broadcast_strides(&self, strides):
\* new_strides starts as Default::default(), all zero, of the rank of Dst
broadcast_strides(old, dstNum, ax) ==
    broadcast_strides_loop(old, [k \in 1 .. dstNum |-> 0], ax, 0, 0)

\* reduced that copies the size of axis i_dst instead of axis i_src
RECURSIVE reduced_loop_lead(_, _, _, _, _)
reduced_loop_lead(src_dims, dst_dims, ax, i_src, i_dst) ==
    IF i_src = Len(src_dims) THEN [dims |-> dst_dims, oob |-> FALSE, i_dst |-> i_dst]
    ELSE IF ~InAx(ax, i_src)
         THEN IF i_dst >= Len(dst_dims) THEN [dims |-> dst_dims, oob |-> TRUE, i_dst |-> i_dst]
              ELSE reduced_loop_lead(
                       src_dims, [dst_dims EXCEPT ![i_dst + 1] = At(src_dims, i_dst)],
                       ax, i_src + 1, i_dst + 1)
         ELSE reduced_loop_lead(src_dims, dst_dims, ax, i_src + 1, i_dst)
reduced_lead(src, dstTy, ax) ==
    LET l == reduced_loop_lead(concrete(src), [k \in 1 .. Len(dstTy) |-> 0], ax, 0, 0)
    IN IF l.oob THEN [ok |-> FALSE, shape |-> <<>>] ELSE from_concrete(dstTy, l.dims)

\* the loop of reduced running over 0 ..= Src::NUM_DIMS
RECURSIVE reduced_loop_incl(_, _, _, _, _)
reduced_loop_incl(src_dims, dst_dims, ax, i_src, i_dst) ==
    IF i_src = Len(src_dims) + 1 THEN [dims |-> dst_dims, oob |-> FALSE, i_dst |-> i_dst]
    ELSE IF ~InAx(ax, i_src)
         THEN IF i_dst >= Len(dst_dims) \/ i_src >= Len(src_dims)
              THEN [dims |-> dst_dims, oob |-> TRUE, i_dst |-> i_dst]
              ELSE reduced_loop_incl(
                       src_dims, [dst_dims EXCEPT ![i_dst + 1] = At(src_dims, i_src)],
                       ax, i_src + 1, i_dst + 1)
         ELSE reduced_loop_incl(src_dims, dst_dims, ax, i_src + 1, i_dst)

\* broadcasts.rs:212-217   the loop of reduced
RECURSIVE reduced_loop(_, _, _, _, _)
reduced_loop(src_dims, dst_dims, ax, i_src, i_dst) ==
    IF i_src = Len(src_dims) THEN [dims |-> dst_dims, oob |-> FALSE, i_dst |-> i_dst]
    ELSE IF ~InAx(ax, i_src)
         THEN IF i_dst >= Len(dst_dims) THEN [dims |-> dst_dims, oob |-> TRUE, i_dst |-> i_dst]
              ELSE reduced_loop(
                       src_dims, [dst_dims EXCEPT ![i_dst + 1] = At(src_dims, i_src)],
                       ax, i_src + 1, i_dst + 1)
         ELSE reduced_loop(src_dims, dst_dims, ax, i_src + 1, i_dst)

\* broadcasts.rs:207-219   ReduceStridesTo::reduced(&self) -> Dst, for Dst of type
\* dstTy: ok = FALSE is the panic of an index out of bounds or of the unwrap()
reduced(src, dstTy, ax) ==
    LET l == reduced_loop(concrete(src), [k \in 1 .. Len(dstTy) |-> 0], ax, 0, 0)
    IN IF l.oob THEN [ok |-> FALSE, shape |-> <<>>] ELSE from_concrete(dstTy, l.dims)

(***************************************************************************)
(* tensor_ops/broadcast_to.rs: tensors and the broadcast operations.       *)
(***************************************************************************)
\* the tape of a handle: NoneTape (owned = FALSE) or an OwnedTape with the
\* backward operations recorded so far
NoneTape == [owned |-> FALSE, ops |-> <<>>]
OwnedTape(ops) == [owned |-> TRUE, ops |-> ops]
Tapes == {NoneTape, OwnedTape(<<"op">>)}

\* Tensor { id, data, shape, strides, device, tape }: data is the shared buffer
Tensor(id, data, shape, strides_, device, tape) ==
    [id |-> id, data |-> data, shape |-> shape, strides |-> strides_,
     device |-> device, tape |-> tape]
NoTensor == Tensor(-1, <<>>, <<>>, <<>>, "", NoneTape)
NoShape == [ok |-> FALSE, shape |-> <<>>, of |-> <<>>, ax |-> <<>>]

\* a freshly allocated contiguous tensor: its buffer holds one value per element
NewTensor(id, shape, tape) ==
    Tensor(id, [k \in 1 .. NumElements(concrete(shape)) |-> 10 * id + k], shape,
           strides(shape), "Cpu", tape)

\* try_broadcast_like that gives its result an identifier of its own
try_broadcast_like_newid(t, dst, ax) ==
    LET c == check(t.shape, dst, ax)
        b == broadcast_strides(t.strides, Len(dst), ax)
    IN IF c.ok /\ ~b.oob
       THEN [ok |-> TRUE,
             tensor |-> Tensor(COUNTER, t.data, dst, b.strides, t.device, t.tape)]
       ELSE [ok |-> FALSE, tensor |-> NoTensor]
\* broadcast_to.rs:139-156   Tensor::try_broadcast_like::<Dst, Ax>(self, dst):
\* check panics (ok = FALSE) or the call returns Ok(Tensor { .. })
try_broadcast_like(t, dst, ax) ==
    LET c == check(t.shape, dst, ax)
        b == broadcast_strides(t.strides, Len(dst), ax)
    IN IF c.ok /\ ~b.oob
       THEN [ok |-> TRUE,
             tensor |-> Tensor(t.id, t.data, dst, b.strides, t.device, t.tape)]
       ELSE [ok |-> FALSE, tensor |-> NoTensor]

\* the handle the program holds: the result of the last broadcast, if any
Live == IF res = "ok" THEN out ELSE self

\* the (Src, Dst, Ax) of an impl
Triple(e) == [src |-> e.src, dst |-> e.dst, ax |-> e.ax]
NoImpl == [src |-> <<>>, dst |-> <<>>, ax |-> <<>>]

\* A broadcast of the live handle to dst along the axes of the impl e.
BroadcastWith(e, dst) ==
    LET r == try_broadcast_like(Live, dst, e.ax) IN
    /\ self' = Live
    /\ out' = r.tensor
    /\ res' = IF r.ok THEN "ok" ELSE "panic"
    /\ dstArg' = dst
    /\ rel' = Triple(e)
    /\ red' = NoShape
    /\ UNCHANGED <<idVars, macroVars, tapeVars>>

\* The calls `Live.try_broadcast_like::<Dst, Ax>(&dst)` an impl e lets compile:
\* Live.shape is of the type e gives Src for the type Dst of dst.
BroadcastBy(e) ==
    /\ e.srcNum = Len(Live.shape)
    /\ e.dstNum <= MaxTensorRank
    /\ \E dst \in ShapesOfRank(e.dstNum) :
         /\ TypeOf(SrcOf(e, dst)) = TypeOf(Live.shape)
         /\ BroadcastWith(e, dst)

\* broadcast_to.rs:38-43   try_broadcast_like (and broadcast, try_broadcast,
\* broadcast_like, which call it), where Self::Shape: BroadcastShapeTo<Dst, Ax>
TryBroadcastLike ==
    /\ res \in {"new", "ok"}
    /\ \E e \in ReduceShapeTo : BroadcastBy(e)

\* broadcast_to.rs:81-89   try_broadcast_top_dims_like, where
\* Self::Shape: BroadcastTopDimsTo<Dst>, with Ax = <Dst as ReduceTopDimsTo<Src>>::Ax
TryBroadcastTopDimsLike ==
    /\ res \in {"new", "ok"}
    /\ \E e \in ReduceTopDimsTo : BroadcastBy(e)

\* broadcast_to.rs:127-135   try_broadcast_bottom_dims_like, where
\* Self::Shape: BroadcastBottomDimsTo<Dst>
TryBroadcastBottomDimsLike ==
    /\ res \in {"new", "ok"}
    /\ \E e \in ReduceBottomDimsTo : BroadcastBy(e)

\* broadcasts.rs:207-219   self.shape().reduced() along the axes of an impl
\* `Self::Shape: ReduceShapeTo<Dst, Ax>`: of a fresh tensor along any axes, of a
\* broadcast tensor along the axes it was broadcast along
Reduced ==
    /\ res \in {"new", "ok"}
    /\ \E e \in ReduceShapeTo :
         /\ e.dstNum = Len(Live.shape)
         /\ res = "ok" => Triple(e) = rel
         /\ LET r == reduced(Live.shape, TypeOf(SrcOf(e, Live.shape)), e.ax) IN
              red' = [ok |-> r.ok, shape |-> r.shape, of |-> Live.shape, ax |-> e.ax]
    /\ res' = "reduced"
    /\ UNCHANGED <<self, out, dstArg, rel, idVars, macroVars, tapeVars>>

(***************************************************************************)
(* Specifications.                                                         *)
(***************************************************************************)
IdleAllocator(c) ==
    /\ COUNTER = c
    /\ pc = [t \in Threads |-> "idle"]
    /\ ret = [t \in Threads |-> -1]
    /\ before = [t \in Threads |-> -1]
    /\ floor = [t \in Threads |-> -1]
    /\ maxRet = -1
    /\ issued = [i \in Ids |-> 0]
    /\ calls = [t \in Threads |-> 0]
\* the macro expander is no part of a running program
NoMacros == stack = <<>> /\ impls = <<>>
NoShapes ==
    /\ self = NoTensor /\ out = NoTensor /\ res = "none"
    /\ dstArg = <<>> /\ rel = NoImpl /\ red = NoShape
\* no gradient store: backward has not been called, or it failed
NoStore == [state |-> "none", g |-> <<>>]
\* no optimizer and no encoder block in the run
NoSgd == [stage |-> "none", lr |-> <<0, 1>>, module |-> <<>>, param |-> -1, log |-> <<>>]
NoEnc == [called |-> FALSE, src |-> NoTensor, q |-> NoTensor, k |-> NoTensor,
          v |-> NoTensor]
NoMerge == [done |-> FALSE, a |-> <<>>, b |-> <<>>, l |-> FALSE, r |-> FALSE, t |-> <<>>]
NoTapes ==
    /\ hand = NoTensor /\ other = NoTensor /\ made = <<>>
    /\ queue = <<>> /\ ran = <<>> /\ store = NoStore
    /\ sgd = NoSgd /\ enc = NoEnc /\ merged = NoMerge

\* The allocator from process start: any thread calls unique_id() at any time.
InitId == IdleAllocator(0) /\ NoMacros /\ NoShapes /\ NoTapes
NextId ==
    \E t \in Threads :
        \/ TotalCalls < MaxCalls /\ Invoke(t) /\ UNCHANGED <<macroVars, shapeVars, tapeVars>>
        \/ unique_id(t) /\ UNCHANGED <<macroVars, shapeVars, tapeVars>>
        \/ Return(t) /\ UNCHANGED <<macroVars, shapeVars, tapeVars>>
SpecId == InitId /\ [][NextId]_vars

\* Every thread calls unique_id() once, all concurrently, the counter standing
\* at whatever value earlier calls left it.
InitConc == (\E c \in Ids : IdleAllocator(c)) /\ NoMacros /\ NoShapes /\ NoTapes
NextConc ==
    \E t \in Threads :
        \/ calls[t] = 0 /\ Invoke(t) /\ UNCHANGED <<macroVars, shapeVars, tapeVars>>
        \/ unique_id(t) /\ UNCHANGED <<macroVars, shapeVars, tapeVars>>
        \/ Return(t) /\ UNCHANGED <<macroVars, shapeVars, tapeVars>>
SpecConc == InitConc /\ [][NextConc]_vars

\* The expansion of the macros of shapes/broadcasts.rs.
InitMacro ==
    /\ IdleAllocator(0) /\ NoShapes /\ NoTapes
    /\ stack = TopLevel
    /\ impls = HandWritten
NextMacro ==
    \/ ExpandBroadcastToAll
    \/ ExpandBroadcastAllTop
    \/ ExpandBroadcastAllBottom
SpecMacro == InitMacro /\ [][NextMacro]_vars

\* The first tensor of the process is created, with the first identifier, then
\* broadcast any number of times and reduced.
InitShape ==
    /\ IdleAllocator(fetch_add(0, 1).new)
    /\ \E n \in 0 .. MaxTensorRank : \E shape \in ShapesOfRank(n) : \E tape \in Tapes :
         self = NewTensor(fetch_add(0, 1).old, shape, tape)
    /\ NoMacros /\ NoTapes
    /\ out = NoTensor /\ res = "new"
    /\ dstArg = <<>> /\ rel = NoImpl /\ red = NoShape
NextShape ==
    \/ TryBroadcastLike
    \/ TryBroadcastTopDimsLike
    \/ TryBroadcastBottomDimsLike
    \/ Reduced
SpecShape == InitShape /\ [][NextShape]_vars

Init == InitId
Next == NextId
Spec == SpecId

(***************************************************************************)
(* Properties.                                                             *)
(***************************************************************************)
SetOf(xs) == {xs[k] : k \in 1 .. Len(xs)}

\* xs without the elements at the (0-based) positions in ax, i the position of Head(xs)
RECURSIVE Without(_, _, _)
Without(xs, ax, i) ==
    IF xs = <<>> THEN <<>>
    ELSE (IF i \in SetOf(ax) THEN <<>> ELSE <<Head(xs)>>) \o Without(Tail(xs), ax, i + 1)
RemoveAxes(xs, ax) == Without(xs, ax, 0)

StrictlyIncreasing(xs) == \A k \in 1 .. (Len(xs) - 1) : xs[k] < xs[k + 1]

\* C1: when any number of threads call unique_id() concurrently, in any
\* interleaving, no two calls return the same identifier, each call returns the
\* value the counter had before its own increment, the identifiers handed out
\* are the consecutive counter values, and a call that has started can always
\* take its fetch-and-add step (it never blocks).
ConcurrentCallsDistinct ==
    /\ \A t \in Threads : \A u \in Threads \ {t} :
         (ret[t] # -1 /\ ret[u] # -1) => ret[t] # ret[u]
    /\ \A i \in Ids : issued[i] <= 1
    /\ \A t \in Threads : ret[t] # -1 => ret[t] = before[t]
    /\ \A k \in 1 .. SumOver(issued, Ids) : issued[(COUNTER + Modulus - k) % Modulus] = 1
    /\ \A t \in Threads : pc[t] = "calling" => ENABLED unique_id(t)

\* every thread is inside its call, past the fetch-and-add, and none has returned
AllCallsOverlap == \A t \in Threads : pc[t] = "fetched"

\* C2: identifiers are never reused and increase: no ordinal is issued twice,
\* and a call that starts after another call has returned gets a strictly
\* greater ordinal than that call.
NeverReusedAndIncreasing ==
    /\ \A i \in Ids : issued[i] <= 1
    /\ \A t \in Threads : pc[t] = "fetched" => ret[t] > floor[t]

\* the positions in impls of the tuple impls of a trait
ImplsAt(trait) ==
    {k \in 1 .. Len(impls) : impls[k].trait = trait /\ impls[k].kind = "tuple"}
\* the positions in impls of the impls the macros declared
Generated == (Len(HandWritten) + 1) .. Len(impls)
Expanded == stack = <<>>

\* C6: once broadcast_to_all! is expanded, for every destination rank n in 1..6
\* and every non-empty set X of axes below n, the relation holds exactly one
\* entry (S, D, X) with D of rank n, and S is D with the axes of X removed (the
\* rank-0 shape when X is all axes); the macro declares nothing else and no
\* entry twice.
RelationComplete ==
    Expanded =>
        /\ \A n \in 1 .. Len(AllDims) : \A X \in (SUBSET (0 .. (n - 1))) \ {{}} :
             LET D == Prefix(AllDims, n)
                 hits == {k \in ImplsAt("ReduceShapeTo") :
                            impls[k].dst = D /\ SetOf(impls[k].ax) = X}
             IN /\ Cardinality(hits) = 1
                /\ \A k \in hits : /\ impls[k].src = RemoveAxes(D, impls[k].ax)
                                   /\ Len(impls[k].ax) = Cardinality(X)
        /\ \A k \in ImplsAt("ReduceShapeTo") \cap Generated :
             /\ impls[k].dstNum \in 1 .. Len(AllDims)
             /\ impls[k].dst = Prefix(AllDims, impls[k].dstNum)
             /\ impls[k].ax # <<>>
             /\ SetOf(impls[k].ax) \subseteq 0 .. (impls[k].dstNum - 1)
        /\ \A j \in 1 .. Len(impls) : \A k \in 1 .. Len(impls) :
             j # k => impls[j] # impls[k]

\* every macro is expanded and the rank-0 shape broadcasts to rank 6 along all axes
ScalarToRank6Declared ==
    /\ Expanded
    /\ \E k \in ImplsAt("ReduceShapeTo") :
         impls[k].src = <<>> /\ impls[k].dst = AllDims /\ impls[k].ax = <<0, 1, 2, 3, 4, 5>>

AxesWellFormed(e) ==
    /\ StrictlyIncreasing(e.ax)
    /\ \A x \in SetOf(e.ax) : 0 <= x /\ x < e.dstNum
    /\ Len(e.ax) = e.dstNum - e.srcNum

\* C7 as stated: every entry (S, D, X) declared in broadcasts.rs, generated or
\* hand-written, has X strictly increasing, every index of X below rank(D), and
\* |X| = rank(D) - rank(S).
AxesWithinDestinationRank ==
    \A k \in 1 .. Len(impls) : AxesWellFormed(impls[k])

\* C7 amended: every entry (S, D, X) with rank(D) >= 1 has X strictly
\* increasing, every index of X below rank(D), and |X| = rank(D) - rank(S); the
\* entries with rank(D) = 0 are the hand-written ones, with S = D = () and
\* X = {0}.
AxesWithinRankUnlessRank0 ==
    \A k \in 1 .. Len(impls) :
        IF impls[k].dstNum = 0
        THEN k <= Len(HandWritten) /\ impls[k].srcNum = 0 /\ impls[k].ax = <<0>>
        ELSE AxesWellFormed(impls[k])

\* every macro is expanded; an entry with interleaved axes and the hand-written
\* rank-0 entry are both declared
InterleavedAxesDeclared ==
    /\ Expanded
    /\ \E k \in ImplsAt("ReduceShapeTo") : impls[k].ax = <<1, 3, 5>>
    /\ \E k \in ImplsAt("ReduceShapeTo") : impls[k].dstNum = 0

\* C8: once the macros are expanded, for every r1 < r2 <= 6 there is exactly one
\* top-aligned entry from rank r1 to rank r2, its axis-set is 0..r2-r1-1 and its
\* source dims are the trailing dims of the destination, and exactly one
\* bottom-aligned entry, its axis-set is r1..r2-1 and its source dims are the
\* leading dims; each is an entry of the general relation too.
TopBottomAreGeneral ==
    Expanded =>
        \A r2 \in 1 .. Len(AllDims) : \A r1 \in 0 .. (r2 - 1) :
            LET D == Prefix(AllDims, r2)
                tops == {k \in ImplsAt("ReduceTopDimsTo") :
                           impls[k].srcNum = r1 /\ impls[k].dstNum = r2}
                bots == {k \in ImplsAt("ReduceBottomDimsTo") :
                           impls[k].srcNum = r1 /\ impls[k].dstNum = r2}
                General(e) == \E g \in ImplsAt("ReduceShapeTo") :
                                 /\ impls[g].src = e.src /\ impls[g].dst = e.dst
                                 /\ impls[g].ax = e.ax /\ impls[g].axis = e.axis
            IN /\ Cardinality(tops) = 1
               /\ \A k \in tops : /\ impls[k].dst = D
                                  /\ impls[k].ax = UpTo(r2 - r1)
                                  /\ impls[k].src = Suffix(D, r2 - r1)
                                  /\ General(impls[k])
               /\ Cardinality(bots) = 1
               /\ \A k \in bots : /\ impls[k].dst = D
                                  /\ impls[k].ax = [i \in 1 .. (r2 - r1) |-> r1 + i - 1]
                                  /\ impls[k].src = Prefix(D, r1)
                                  /\ General(impls[k])

\* every macro is expanded; rank 2 broadcasts to rank 5 top-aligned and rank 4
\* to rank 6 bottom-aligned
TopAndBottomDeclared ==
    /\ Expanded
    /\ \E k \in ImplsAt("ReduceTopDimsTo") : impls[k].srcNum = 2 /\ impls[k].dstNum = 5
    /\ \E k \in ImplsAt("ReduceBottomDimsTo") : impls[k].ax = <<4, 5>>

\* a try_broadcast_like call has been made and nothing else since
Broadcasted == res \in {"ok", "panic"}

\* C3: try_broadcast_like(self, dst) along X succeeds iff the sizes of dst on
\* its axes not in X equal the sizes of self's shape pairwise and in order, and
\* check returns normally exactly then; on a mismatch the call panics and no
\* tensor is produced; on success the result has exactly the shape dst.
BroadcastFailsOnMismatch ==
    Broadcasted =>
        LET match == RemoveAxes(concrete(dstArg), rel.ax) = concrete(self.shape)
        IN /\ (res = "ok") <=> match
           /\ check(self.shape, dstArg, rel.ax).ok <=> match
           /\ res = "panic" => out = NoTensor
           /\ res = "ok" => out.shape = dstArg

\* a broadcast of a rank-1 tensor to rank 2 panicked on a size read at run time
MismatchPanicked ==
    /\ res = "panic"
    /\ Len(self.shape) = 1 /\ Len(dstArg) = 2 /\ rel.ax = <<0>>
    /\ ~self.shape[1].const /\ self.shape[1].size # dstArg[2].size

\* C4: the strides of a broadcast have the length of the rank of D, are 0 on
\* every axis in X, and on the k-th axis of D not in X are the k-th stride of
\* the source; source strides [1] broadcast to rank 3 along {0, 2} give [0, 1, 0].
BroadcastStridesPlaced ==
    /\ res = "ok" =>
         LET kept == RemoveAxes(UpTo(Len(dstArg)), rel.ax)
         IN /\ Len(out.strides) = Len(dstArg)
            /\ \A i \in 0 .. (Len(dstArg) - 1) : InAx(rel.ax, i) => At(out.strides, i) = 0
            /\ Len(kept) = Len(self.strides)
            /\ \A k \in 1 .. Len(kept) : At(out.strides, kept[k]) = self.strides[k]
    /\ broadcast_strides(<<1>>, 3, <<0, 2>>).strides = <<0, 1, 0>>

\* a rank-1 tensor of stride 1 was broadcast to rank 3 along axes 0 and 2
Strides010 ==
    /\ res = "ok" /\ self.strides = <<1>> /\ rel.ax = <<0, 2>>
    /\ out.strides = <<0, 1, 0>>

\* C5 as stated: reduced() returns the shape whose dimensions are the
\* dimensions of S on the axes not in X, in order, rank(S) - |X| of them,
\* whether they are dynamic or Const.
ReducedKeepsOtherAxes ==
    res = "reduced" =>
        /\ red.ok
        /\ red.shape = RemoveAxes(red.of, red.ax)
        /\ Len(red.shape) = Len(red.of) - Len(red.ax)

\* C5 amended: reduced() returns the shape whose dimensions are the dimensions
\* of S on the axes not in X, in order, whether they are dynamic or Const:
\* rank(S) - |X| of them when rank(S) >= 1, and none for the rank-0 shape, which
\* reduces along X = {0} to itself.
ReducedKeepsOtherAxesRank0 ==
    res = "reduced" =>
        /\ red.ok
        /\ red.shape = RemoveAxes(red.of, red.ax)
        /\ Len(red.of) >= 1 => Len(red.shape) = Len(red.of) - Len(red.ax)
        /\ Len(red.of) = 0 => red.ax = <<0>> /\ red.shape = <<>>

\* a rank-3 shape with a Const and a dynamic dimension kept was reduced along axis 1
ReducedMiddleAxis ==
    /\ res = "reduced" /\ red.ax = <<1>> /\ Len(red.of) = 3
    /\ red.of[1].const /\ ~red.of[3].const /\ red.of[2].size # red.of[3].size
    /\ Len(red.shape) = 2

\* C9: a successful try_broadcast_like changes only the shape and the strides
\* of the handle: the result has the identifier, buffer, device and tape of the
\* handle it consumed, no identifier is issued and no operation is added to
\* the tape.
BroadcastIsView ==
    [][res' = "ok" =>
          /\ out'.id = Live.id
          /\ out'.data = Live.data
          /\ out'.device = Live.device
          /\ out'.tape = Live.tape
          /\ out'.shape = dstArg'
          /\ COUNTER' = COUNTER /\ issued' = issued]_vars

\* a tensor that carries a tape was broadcast to a larger rank
TapedTensorBroadcast ==
    /\ res = "ok" /\ self.tape.owned /\ self.tape.ops # <<>>
    /\ Len(out.shape) > Len(self.shape)
    /\ \E k \in 1 .. Len(out.strides) : out.strides[k] = 0

\* the indices of a tensor with the given sizes
Indices(sizes) ==
    {idx \in [1 .. Len(sizes) -> 0 .. (MaxDim - 1)] :
        \A k \in 1 .. Len(sizes) : idx[k] < sizes[k]}
\* the buffer offset an index addresses through strides
RECURSIVE Offset(_, _)
Offset(idx, strides_) ==
    IF idx = <<>> THEN 0
    ELSE Head(idx) * Head(strides_) + Offset(Tail(idx), Tail(strides_))
\* an output gradient: a different value at every index of the shape
GradOut(idx, shape) == 1 + Offset(idx, strides(shape))
\* the gradient buffer after adding GradOut at the offset of every index of idxs
RECURSIVE Accumulated(_, _, _, _)
Accumulated(idxs, strides_, shape, grad) ==
    IF idxs = {} THEN grad
    ELSE LET idx == CHOOSE x \in idxs : TRUE
         IN Accumulated(idxs \ {idx}, strides_, shape,
                        [grad EXCEPT ![Offset(idx, strides_) + 1] = @ + GradOut(idx, shape)])
RECURSIVE SumGrad(_, _)
SumGrad(idxs, shape) ==
    IF idxs = {} THEN 0
    ELSE LET idx == CHOOSE x \in idxs : TRUE
         IN GradOut(idx, shape) + SumGrad(idxs \ {idx}, shape)

\* C10: for S broadcast to D along X with row-major source strides, every index
\* of D addresses the offset of the source index obtained by deleting its
\* coordinates on X, and accumulating an output gradient over all indices of D
\* through the broadcast strides leaves at each source element the sum of the
\* output gradient over the axes in X.
BroadcastGradientSums ==
    (res = "ok" /\ self.strides = strides(self.shape)) =>
        LET D == Indices(concrete(out.shape))
            S == Indices(concrete(self.shape))
            grad == Accumulated(D, out.strides, out.shape,
                                [k \in 1 .. NumElements(concrete(self.shape)) |-> 0])
        IN /\ \A idx \in D : Offset(idx, out.strides)
                               = Offset(RemoveAxes(idx, rel.ax), self.strides)
           /\ \A sidx \in S :
                grad[Offset(sidx, self.strides) + 1]
                  = SumGrad({idx \in D : RemoveAxes(idx, rel.ax) = sidx}, out.shape)

\* a contiguous tensor of shape (2) was broadcast to (2, 2) along axis 0
VectorBroadcastAlongAxis0 ==
    /\ res = "ok" /\ self.strides = strides(self.shape)
    /\ concrete(self.shape) = <<2>> /\ concrete(out.shape) = <<2, 2>> /\ rel.ax = <<0>>

(***************************************************************************)
(* The tape.  Element values are f32/f64 in the source; the model computes *)
(* with exact rationals <<numerator, denominator>> in lowest terms with a  *)
(* positive denominator, so that 1/N and x * alpha are exact.              *)
(***************************************************************************)
RECURSIVE GCD(_, _)
GCD(a, b) == IF b = 0 THEN a ELSE GCD(b, a % b)
Abs(n) == IF n < 0 THEN -n ELSE n
Rat(n, d) ==
    LET g == GCD(Abs(n), Abs(d))
        s == IF d < 0 THEN -1 ELSE 1
    IN <<(s * n) \div g, (s * d) \div g>>
RInt(n) == <<n, 1>>
RZero == RInt(0)
ROne == RInt(1)
RAdd(a, b) == Rat(a[1] * b[2] + b[1] * a[2], a[2] * b[2])
RSub(a, b) == Rat(a[1] * b[2] - b[1] * a[2], a[2] * b[2])
RMul(a, b) == Rat(a[1] * b[1], a[2] * b[2])
RDiv(a, b) == Rat(a[1] * b[2], a[2] * b[1])
RLess(a, b) == a[1] * b[2] < b[1] * a[2]
RVec(ints) == [k \in 1 .. Len(ints) |-> RInt(ints[k])]
RECURSIVE RSumTo(_, _)
RSumTo(xs, n) == IF n = 0 THEN RZero ELSE RAdd(RSumTo(xs, n - 1), xs[n])
RSum(xs) == RSumTo(xs, Len(xs))

\* leaky_relu/cpu_kernel.rs:6-13   LeakyReLUKernelOp::f
LeakyReLUKernelOp_f(alpha, x) == IF RLess(x, RZero) THEN RMul(x, alpha) ELSE x
\* the derivative with `<=` for `<`
LeakyReLUKernelOp_df_le(alpha, x) == IF ~RLess(RZero, x) THEN alpha ELSE ROne
\* leaky_relu/cpu_kernel.rs:14-21   LeakyReLUKernelOp::df
LeakyReLUKernelOp_df(alpha, x) == IF RLess(x, RZero) THEN alpha ELSE ROne

\* prelu/cpu_kernel.rs:6-13   PReLUKernelOp::f
PReLUKernelOp_f(x, alpha) == IF RLess(x, RZero) THEN RMul(x, alpha) ELSE x
\* prelu/cpu_kernel.rs:14-21   PReLUKernelOp::dfdx
PReLUKernelOp_dfdx(x, alpha) == IF RLess(x, RZero) THEN alpha ELSE ROne
\* the derivative by alpha that returns alpha for x
PReLUKernelOp_dfdy_alpha(x, alpha) == IF RLess(x, RZero) THEN alpha ELSE RZero
\* prelu/cpu_kernel.rs:22-29   PReLUKernelOp::dfdy
PReLUKernelOp_dfdy(x, alpha) == IF RLess(x, RZero) THEN x ELSE RZero

\* the value f and the derivatives by the left and the right operand of the
\* kernel of an operation kind (prelu: the kernels above; add: x + y)
KernelF(kind, x, y) == IF kind = "prelu" THEN PReLUKernelOp_f(x, y) ELSE RAdd(x, y)
KernelDfdx(kind, x, y) == IF kind = "prelu" THEN PReLUKernelOp_dfdx(x, y) ELSE ROne
KernelDfdy(kind, x, y) == IF kind = "prelu" THEN PReLUKernelOp_dfdy(x, y) ELSE ROne

\* the index of the p-th element (p from 0) of a tensor of the given sizes, in
\* row-major order
IndexAt(sizes, p) ==
    [k \in 1 .. Len(sizes) |->
        (p \div NumElements(SubSeq(sizes, k + 1, Len(sizes)))) % sizes[k]]
\* the element of a handle at the p-th index: read through its strides
OffsetAt(t, p) == Offset(IndexAt(concrete(t.shape), p), t.strides)
ElemAt(t, p) == t.data[OffsetAt(t, p) + 1]
Logical(t) == [p \in 1 .. NumElements(concrete(t.shape)) |-> ElemAt(t, p - 1)]

\* what a backward operation keeps of a tensor: its identifier, buffer, shape
\* and strides, without the tape
Ghost(t) == [id |-> t.id, data |-> t.data, shape |-> t.shape, strides |-> t.strides]
NoGhost == [id |-> -1, data |-> <<>>, shape |-> <<>>, strides |-> <<>>]

\* a recorded backward operation: n is its position in the order of recording
Op(kind, alpha, inp, rhs, out_, n) ==
    [kind |-> kind, alpha |-> alpha, inp |-> inp, rhs |-> rhs, out |-> out_, n |-> n]

(***************************************************************************)
(* The gradient store: a map from identifier to gradient buffer.           *)
(***************************************************************************)
Zeros(n) == [k \in 1 .. n |-> RZero]
\* the store with an entry for the tensor: zero-filled on first access
Alloc(g, t) ==
    IF t.id \in DOMAIN g THEN g
    ELSE [i \in DOMAIN g \cup {t.id} |-> IF i = t.id THEN Zeros(Len(t.data)) ELSE g[i]]
\* the store with `v` added to element `off` (from 0) of the gradient of `id`
AddAt(g, id, off, v) == [g EXCEPT ![id][off + 1] = RAdd(@, v)]
\* the store with `v` written over element `off` of the gradient of `id`
SetAt(g, id, off, v) == [g EXCEPT ![id][off + 1] = v]

(***************************************************************************)
(* Backward operations: what each recorded closure does to the store.      *)
(***************************************************************************)
\* the store after adding vals[p + 1] into the gradient of `t` at the offset of
\* the p-th index of `t`, for every index from p on
RECURSIVE add_assign(_, _, _, _)
add_assign(g, t, vals, p) ==
    IF p = Len(vals) THEN g
    ELSE add_assign(AddAt(g, t.id, OffsetAt(t, p), vals[p + 1]), t, vals, p + 1)
\* the same with every element written over instead of added to
RECURSIVE assign(_, _, _, _)
assign(g, t, vals, p) ==
    IF p = Len(vals) THEN g
    ELSE assign(SetAt(g, t.id, OffsetAt(t, p), vals[p + 1]), t, vals, p + 1)

\* the closure of mean that overwrites the gradient of its input
mean_backward_assign(op, g) ==
    LET N == NumElements(concrete(op.inp.shape))
        gr == g[op.out.id][1]
    IN assign(g, op.inp, [p \in 1 .. N |-> RDiv(gr, RInt(N))], 0)
\* the closure of mean that does not divide by the number of elements
mean_backward_nodiv(op, g) ==
    LET N == NumElements(concrete(op.inp.shape))
        gr == g[op.out.id][1]
    IN add_assign(g, op.inp, [p \in 1 .. N |-> gr], 0)
\* impl_mean.rs:10-14   the closure mean records:
\*   g = *tape.ref_gradient(&_result); every element of t := g / NUM_ELEMENTS;
\*   add_assign(tape.mut_gradient(&t), t.data())
mean_backward(op, g) ==
    LET N == NumElements(concrete(op.inp.shape))
        gr == g[op.out.id][1]
    IN add_assign(g, op.inp, [p \in 1 .. N |-> RDiv(gr, RInt(N))], 0)

\* the closure of sum: the gradient of the result added at every element
sum_backward(op, g) ==
    LET N == NumElements(concrete(op.inp.shape))
        gr == g[op.out.id][1]
    IN add_assign(g, op.inp, [p \in 1 .. N |-> gr], 0)

\* the closure of a unary operation: through the buffers of input and output,
\* which have the same layout: grad_inp[i] += df(inp[i]) * grad_out[i]
unary_backward(op, g) ==
    [g EXCEPT ![op.inp.id] =
        [i \in 1 .. Len(@) |->
            RAdd(@[i], RMul(LeakyReLUKernelOp_df(op.alpha, op.inp.data[i]),
                            g[op.out.id][i]))]]

\* the closure of a binary operation: for every index of the output,
\* grad_lhs += dfdx * grad_out and grad_rhs += dfdy * grad_out, whether or not
\* the operand carried a tape
binary_backward(op, g) ==
    LET N == NumElements(concrete(op.out.shape))
        gl == add_assign(g, op.inp,
                  [p \in 1 .. N |->
                      RMul(KernelDfdx(op.kind, ElemAt(op.inp, p - 1), ElemAt(op.rhs, p - 1)),
                           g[op.out.id][p])], 0)
    IN add_assign(gl, op.rhs,
                  [p \in 1 .. N |->
                      RMul(KernelDfdy(op.kind, ElemAt(op.inp, p - 1), ElemAt(op.rhs, p - 1)),
                           g[op.out.id][p])], 0)

\* the kinds of operation whose closure is part of the model (the layers of
\* the encoder block record closures the model does not look into)
Replayable == {"leaky_relu", "prelu", "add", "mean", "sum"}
\* the invocation of a recorded closure on the store: gradients are allocated
\* (zero-filled) on first access
Replay(op, g) ==
    LET g1 == Alloc(Alloc(IF op.rhs = NoGhost THEN g ELSE Alloc(g, op.rhs), op.inp), op.out)
    IN CASE op.kind = "mean" -> mean_backward(op, g1)
         [] op.kind = "sum" -> sum_backward(op, g1)
         [] op.kind = "leaky_relu" -> unary_backward(op, g1)
         [] op.kind \in {"prelu", "add"} -> binary_backward(op, g1)
         [] OTHER -> g1
\* the store after replaying the operations of a tape in reverse, last first
RECURSIVE ReplayAll(_, _)
ReplayAll(ops, g) ==
    IF ops = <<>> THEN g
    ELSE ReplayAll(SubSeq(ops, 1, Len(ops) - 1), Replay(ops[Len(ops)], g))

(***************************************************************************)
(* Forward operations.  `id` is the identifier unique_id() gave the tensor *)
(* the operation creates, n the number of the operation in recording order.*)
(***************************************************************************)
\* Tape::add_backward_op / TapeHolder::add_operation: an owned tape appends the
\* closure, a handle without tape records nothing
add_operation(tape, op) == IF tape.owned THEN OwnedTape(Append(tape.ops, op)) ELSE tape
\* the same inserting the closure before the operations already recorded
add_operation_front(tape, op) == IF tape.owned THEN OwnedTape(<<op>> \o tape.ops) ELSE tape

\* Merge: the operations of the left tape, then those of the right tape
merge(a, b) == IF a.owned \/ b.owned THEN OwnedTape(a.ops \o b.ops) ELSE NoneTape

\* t.split_tape(): the handle without its tape, and the tape
split_tape(t) == [tensor |-> [t EXCEPT !.tape = NoneTape], tape |-> t.tape]
\* t.put_tape(tape) / with_tape_holder
put_tape(t, tape) == [t EXCEPT !.tape = tape]
\* t.duplicate(): the same identifier, buffer and shape, without tape
duplicate(t) == [t EXCEPT !.tape = NoneTape]

\* try_unary_op(LeakyReLUKernelOp { alpha }, t): a new tensor of the layout of t
\* with f applied to every element of the buffer; the tape of t moves to it
try_unary_op(alpha, t, id, n) ==
    LET s == split_tape(t)
        o == Tensor(id, [i \in 1 .. Len(t.data) |-> LeakyReLUKernelOp_f(alpha, t.data[i])],
                    t.shape, t.strides, t.device, NoneTape)
    IN put_tape(o, add_operation(s.tape,
                    Op("leaky_relu", alpha, Ghost(s.tensor), NoGhost, Ghost(o), n)))
\* leaky_relu/mod.rs:33-35   Tensor::try_leaky_relu(self, alpha)
try_leaky_relu(t, alpha, id, n) == try_unary_op(alpha, t, id, n)

\* try_binary_op(op, lhs, rhs): a new contiguous tensor with f applied to every
\* pair of elements; the tapes of both operands are merged and move to it
try_binary_op(kind, lhs, rhs, id, n) ==
    LET l == split_tape(lhs)
        r == split_tape(rhs)
        o == Tensor(id, [p \in 1 .. NumElements(concrete(lhs.shape)) |->
                            KernelF(kind, ElemAt(lhs, p - 1), ElemAt(rhs, p - 1))],
                    lhs.shape, strides(lhs.shape), lhs.device, NoneTape)
    IN put_tape(o, add_operation(merge(l.tape, r.tape),
                    Op(kind, RZero, Ghost(l.tensor), Ghost(r.tensor), Ghost(o), n)))
\* prelu that detaches alpha before the operation
try_prelu_detached(t, prob, id, n) == try_binary_op("prelu", t, duplicate(prob), id, n)
\* prelu/mod.rs:60-66   Tensor::try_prelu(self, prob)
try_prelu(t, prob, id, n) == try_binary_op("prelu", t, prob, id, n)
\* add(lhs, &rhs): rhs is borrowed and carries no tape
add(lhs, rhs, id, n) == try_binary_op("add", lhs, duplicate(rhs), id, n)

\* mean that records its closure ahead of the operations already on the tape
mean_front(t, id, n) ==
    LET N == NumElements(concrete(t.shape))
        result == Tensor(id, <<RDiv(RSum(Logical(t)), RInt(N))>>, <<>>, <<>>, t.device, NoneTape)
        s == split_tape(t)
    IN put_tape(result, add_operation_front(s.tape,
                    Op("mean", RZero, Ghost(s.tensor), NoGhost, Ghost(result), n)))
\* impl_mean.rs:6-16   mean(t): a new Tensor0D holding Device::mean(t.data()); the
\* tape holder is split from t, the closure added to it, and it moves to result
mean(t, id, n) ==
    LET N == NumElements(concrete(t.shape))
        result == Tensor(id, <<RDiv(RSum(Logical(t)), RInt(N))>>, <<>>, <<>>, t.device, NoneTape)
        s == split_tape(t)
    IN put_tape(result, add_operation(s.tape,
                    Op("mean", RZero, Ghost(s.tensor), NoGhost, Ghost(result), n)))
\* t.sum(): a new rank-0 tensor holding the sum of the elements
sum(t, id, n) ==
    LET result == Tensor(id, <<RSum(Logical(t))>>, <<>>, <<>>, t.device, NoneTape)
        s == split_tape(t)
    IN put_tape(result, add_operation(s.tape,
                    Op("sum", RZero, Ghost(s.tensor), NoGhost, Ghost(result), n)))

\* the operation a layer of the encoder block records: the layer creates a
\* tensor of the shape of its input and records one closure on the merged tape
\* of its inputs (the values and derivatives of the layers are not modelled:
\* the result keeps the elements of x)
layer(kind, x, y, z, id, n) ==
    LET o == Tensor(id, Logical(x), x.shape, strides(x.shape), x.device, NoneTape)
    IN put_tape(o, add_operation(merge(merge(x.tape, y.tape), z.tape),
                    Op(kind, RZero, Ghost(x), Ghost(y), Ghost(o), n)))

\* forward whose three duplicates all keep the tape
forward_dup(src, id, n) ==
    LET s == split_tape(src)
        q == put_tape(duplicate(s.tensor), s.tape)
        k == put_tape(duplicate(s.tensor), s.tape)
        v == put_tape(duplicate(s.tensor), s.tape)
        x1 == layer("self_attn", q, k, v, id[1], n)
        x2 == add(x1, s.tensor, id[2], n + 1)
        x3 == layer("norm1", x2, NoTensor, NoTensor, id[3], n + 2)
        x4 == layer("ff", x3, NoTensor, NoTensor, id[4], n + 3)
        x5 == layer("norm2", x4, NoTensor, NoTensor, id[5], n + 4)
    IN [out |-> x5, q |-> q, k |-> k, v |-> v, xs |-> <<x1, x2, x3, x4, x5>>]
\* encoder.rs:82-93   TransformerEncoderBlock::forward(&self, src)
forward(src, id, n) ==
    LET s == split_tape(src)
        q == put_tape(duplicate(s.tensor), s.tape)
        k == duplicate(s.tensor)
        v == duplicate(s.tensor)
        x1 == layer("self_attn", q, k, v, id[1], n)
        x2 == add(x1, s.tensor, id[2], n + 1)
        x3 == layer("norm1", x2, NoTensor, NoTensor, id[3], n + 2)
        x4 == layer("ff", x3, NoTensor, NoTensor, id[4], n + 3)
        x5 == layer("norm2", x4, NoTensor, NoTensor, id[5], n + 4)
    IN [out |-> x5, q |-> q, k |-> k, v |-> v, xs |-> <<x1, x2, x3, x4, x5>>]

(***************************************************************************)
(* The backward driver and the optimizer.                                  *)
(***************************************************************************)
\* backward(output): accepted for a rank-0 tensor that carries a tape; the tape
\* moves out of the handle and the store is seeded with 1 at the output; any
\* other tensor is refused (NonScalarOutput) and nothing is done
backward(t) ==
    IF Len(t.shape) = 0 /\ t.tape.owned
    THEN [ok |-> TRUE, g |-> (t.id :> <<ROne>>), ops |-> t.tape.ops, tensor |-> duplicate(t)]
    ELSE [ok |-> FALSE, g |-> <<>>, ops |-> <<>>, tensor |-> t]

\* the state of the store once `ops` are left to replay
StoreOf(g, ops) == [state |-> IF ops = <<>> THEN "ok" ELSE "running", g |-> g]

\* step that goes on with whatever backward returned
step_unchecked(loss) ==
    LET r == backward(loss)
    IN [stage |-> "backward", store |-> StoreOf(r.g, r.ops), ops |-> r.ops,
        loss |-> r.tensor]
\* sgd.rs:39   let mut tape = loss.backward().unwrap();
step(loss) ==
    LET r == backward(loss)
    IN IF r.ok
       THEN [stage |-> "backward", store |-> StoreOf(r.g, r.ops), ops |-> r.ops,
             loss |-> r.tensor]
       ELSE [stage |-> "panicked", store |-> NoStore, ops |-> <<>>, loss |-> r.tensor]

\* step that updates the module before it scales the gradients
step_update_first(stage) ==
    CASE stage = "backward" -> "update"
      [] stage = "update" -> "scale"
      [] OTHER -> "idle"
\* sgd.rs:39-41   the statement of step that follows the one last executed
step_next(stage) ==
    CASE stage = "backward" -> "scale"
      [] stage = "scale" -> "update"
      [] OTHER -> "idle"

\* tape.scale(lr): every gradient of the store multiplied by lr
scale(g, lr) == [i \in DOMAIN g |-> [k \in 1 .. Len(g[i]) |-> RMul(g[i][k], lr)]]
\* module.update(&tape): the gradient of the parameter subtracted from it; a
\* parameter without gradient is left as it is
update(module, param, g) ==
    IF param \in DOMAIN g
    THEN [k \in 1 .. Len(module) |-> RSub(module[k], g[param][k])]
    ELSE module

(***************************************************************************)
(* A run of the tape: two tensors are created, operations are applied to   *)
(* them, and the result is differentiated, directly or by Sgd::step.       *)
(***************************************************************************)
\* greatest number of tensors the operations of a run create
MaxOps == 3
\* impl_mean.rs:29-33   tensor_impl!(Tensor0D ..) to tensor_impl!(Tensor4D ..)
MaxMeanRank == 4

Rank(sizes) == [k \in 1 .. Len(sizes) |-> Dim(TRUE, sizes[k])]
\* the shapes of the runs, of rank 0 to 4: those of the tests of impl_mean.rs and
\* leaky_relu up to rank 2, and one of rank 3 and one of rank 4
TapeShapes ==
    {Rank(<<>>), Rank(<<3>>), Rank(<<4>>), Rank(<<2, 3>>), Rank(<<2, 1, 2>>),
     Rank(<<2, 1, 2, 1>>)}
\* the shapes of the runs with two operands
PairShapes == {Rank(<<>>), Rank(<<4>>)}
Ramp(start, n) == [k \in 1 .. n |-> RInt(start + k - 1)]
\* the element values of the runs: the values of the tests (-1 and 3 for a
\* scalar, [1, 2, 3], [-2, -1, 1, 2], [[1, 2, 3], [4, 5, 6]]), and values with a
\* zero among negative and positive ones
DataFor(n) ==
    CASE n = 1 -> {RVec(<<-1>>), RVec(<<0>>), RVec(<<3>>)}
      [] n = 4 -> {RVec(<<-2, -1, 1, 2>>), Ramp(-2, n)}
      [] n \in {3, 6} -> {Ramp(1, n)}
      [] OTHER -> {Ramp(-2, n)}
\* the values of alpha: one slope everywhere, and the vector of test_prelu_1d
AlphaFor(n) ==
    {[k \in 1 .. n |-> Rat(1, 2)]}
        \cup (IF n = 4 THEN {<<Rat(1, 4), Rat(1, 2), RZero, RZero>>} ELSE {})
\* the slope of leaky_relu in the runs, as in the tests
Alphas == {Rat(1, 2)}
\* sgd.rs:13   SgdConfig::default(): lr: 1e-2
DefaultLr == Rat(1, 100)

allocVars == <<pc, ret, before, floor, maxRet, issued, calls>>
\* unique_id() for n new tensors: the identifiers, and the counter afterwards
RECURSIVE unique_ids(_, _)
unique_ids(c, n) ==
    IF n = 0 THEN [ids |-> <<>>, counter |-> c]
    ELSE LET r == fetch_add(c, 1)
             rest == unique_ids(r.new, n - 1)
         IN [ids |-> <<r.old>> \o rest.ids, counter |-> rest.counter]
\* the counter has not wrapped once n more identifiers are taken
HasFreshIds(n) == COUNTER + n <= Modulus

OfGhost(r) == Tensor(r.id, r.data, r.shape, r.strides, "Cpu", NoneTape)

\* the forward pass is still going on
Forward == store.state = "none" /\ sgd.stage = "idle" /\ ~enc.called
CanMake == Len(made) < 2 + MaxOps /\ HasFreshIds(1)

\* the frame of an operation that creates the tensor `t` in place of `hand`
Made(t) ==
    /\ hand' = t
    /\ made' = Append(made, Ghost(t))
    /\ COUNTER' = unique_ids(COUNTER, 1).counter
    /\ UNCHANGED <<allocVars, macroVars, shapeVars, queue, ran, store, sgd, enc>>

\* x.trace() / x.leaky_trace(): the handle gets an empty tape
LeakyTrace ==
    /\ Forward /\ ~hand.tape.owned
    /\ \E k \in 1 .. 2 : made[k].id = hand.id
    /\ hand' = put_tape(hand, OwnedTape(<<>>))
    /\ UNCHANGED <<idVars, macroVars, shapeVars, other, made, queue, ran, store, sgd,
                   enc, merged>>

\* the program goes on with its other tensor, which it has not used yet
Turn ==
    /\ Forward /\ other # NoTensor /\ ~other.tape.owned
    /\ \E k \in 1 .. 2 : Ghost(other) = made[k]
    /\ hand.tape.owned \/ Ghost(hand) = made[1]
    /\ hand' = other /\ other' = hand
    /\ UNCHANGED <<idVars, macroVars, shapeVars, made, queue, ran, store, sgd, enc, merged>>

\* leaky_relu/mod.rs:29-35   hand.leaky_relu(alpha)
LeakyRelu ==
    /\ Forward /\ CanMake
    /\ \E alpha \in Alphas :
         Made(try_leaky_relu(hand, alpha, unique_ids(COUNTER, 1).ids[1], Len(made)))
    /\ UNCHANGED <<other, merged>>

\* prelu/mod.rs:54-66   hand.prelu(other), where LTape: Merge<RTape>: a result of
\* the tape type of hand cannot carry the tape of other when hand has none
Prelu ==
    /\ Forward /\ CanMake
    /\ other # NoTensor /\ other.shape = hand.shape
    /\ hand.tape.owned \/ ~other.tape.owned
    /\ Made(try_prelu(hand, other, unique_ids(COUNTER, 1).ids[1], Len(made)))
    /\ other' = NoTensor
    /\ merged' = [done |-> TRUE, a |-> hand.tape.ops, b |-> other.tape.ops,
                  l |-> hand.tape.owned, r |-> other.tape.owned, t |-> hand'.tape.ops]

\* add(hand, &x) for the first tensor x of the run, when of the shape of hand
Add ==
    /\ Forward /\ CanMake
    /\ \E k \in 1 .. 1 :
         /\ made[k].shape = hand.shape
         /\ Made(add(hand, OfGhost(made[k]), unique_ids(COUNTER, 1).ids[1], Len(made)))
    /\ UNCHANGED <<other, merged>>

\* broadcast_to.rs:17-43   hand.broadcast::<Dst, Ax>() to one of the shapes of the run
Broadcast ==
    /\ Forward
    /\ \E k \in 1 .. 2 : Ghost(hand) = made[k]
    /\ \E e \in ReduceShapeTo : \E dst \in TapeShapes :
         /\ e.srcNum = Len(hand.shape) /\ e.dstNum = Len(dst)
         /\ Len(e.ax) = 1
         /\ TypeOf(SrcOf(e, dst)) = TypeOf(hand.shape)
         /\ try_broadcast_like(hand, dst, e.ax).ok
         /\ hand' = try_broadcast_like(hand, dst, e.ax).tensor
    /\ UNCHANGED <<idVars, macroVars, shapeVars, other, made, queue, ran, store, sgd,
                   enc, merged>>

\* impl_mean.rs:20-24   hand.mean(), for Tensor0D to Tensor4D
Mean ==
    /\ Forward /\ CanMake
    /\ Len(hand.shape) <= MaxMeanRank
    /\ Made(mean(hand, unique_ids(COUNTER, 1).ids[1], Len(made)))
    /\ UNCHANGED <<other, merged>>

\* hand.sum()
Sum ==
    /\ Forward /\ CanMake
    /\ Made(sum(hand, unique_ids(COUNTER, 1).ids[1], Len(made)))
    /\ UNCHANGED <<other, merged>>

\* encoder.rs:82-93   block.forward(hand)
EncoderForward ==
    /\ Forward /\ HasFreshIds(5)
    /\ LET r == forward(hand, unique_ids(COUNTER, 5).ids, Len(made)) IN
         /\ hand' = r.out
         /\ enc' = [called |-> TRUE, src |-> hand, q |-> r.q, k |-> r.k, v |-> r.v]
         /\ made' = made \o [i \in 1 .. 5 |-> Ghost(r.xs[i])]
    /\ COUNTER' = unique_ids(COUNTER, 5).counter
    /\ UNCHANGED <<allocVars, macroVars, shapeVars, other, queue, ran, store, sgd, merged>>

\* backward(hand) / hand.backward(), called by the program itself
Backward ==
    /\ ~enc.called /\ sgd.stage = "idle" /\ store.state # "running"
    /\ LET r == backward(hand) IN
         /\ hand' = r.tensor
         /\ queue' = r.ops
         /\ store' = IF r.ok THEN StoreOf(r.g, r.ops) ELSE [state |-> "failed", g |-> <<>>]
    /\ UNCHANGED <<idVars, macroVars, shapeVars, other, made, ran, sgd, enc, merged>>

\* the driver invokes the closure recorded last among those left
ReplayNext ==
    /\ store.state = "running"
    /\ LET op == queue[Len(queue)]
           rest == SubSeq(queue, 1, Len(queue) - 1)
       IN /\ op.kind \in Replayable
          /\ queue' = rest
          /\ ran' = Append(ran, op)
          /\ store' = StoreOf(Replay(op, store.g), rest)
    /\ UNCHANGED <<idVars, macroVars, shapeVars, hand, other, made, sgd, enc, merged>>

\* sgd.rs:38-39   opt.step(&mut hand) up to and including loss.backward().unwrap()
StepBackward ==
    /\ ~enc.called /\ sgd.stage = "idle" /\ store.state # "running"
    /\ LET r == step(hand) IN
         /\ hand' = r.loss
         /\ queue' = r.ops
         /\ store' = r.store
         /\ sgd' = [sgd EXCEPT !.stage = r.stage, !.log = Append(@, "backward")]
    /\ UNCHANGED <<idVars, macroVars, shapeVars, other, made, ran, enc, merged>>

\* sgd.rs:40   tape.scale(self.cfg.lr)
StepScale ==
    /\ sgd.stage \in {"backward", "scale", "update"} /\ store.state = "ok"
    /\ step_next(sgd.stage) = "scale"
    /\ store' = [store EXCEPT !.g = scale(@, sgd.lr)]
    /\ sgd' = [sgd EXCEPT !.stage = "scale", !.log = Append(@, "scale")]
    /\ UNCHANGED <<idVars, macroVars, shapeVars, hand, other, made, queue, ran, enc, merged>>

\* sgd.rs:41   self.update(&tape)
StepUpdate ==
    /\ sgd.stage \in {"backward", "scale", "update"} /\ store.state = "ok"
    /\ step_next(sgd.stage) = "update"
    /\ sgd' = [sgd EXCEPT !.stage = "update", !.log = Append(@, "update"),
                          !.module = update(@, sgd.param, store.g)]
    /\ UNCHANGED <<idVars, macroVars, shapeVars, hand, other, made, queue, ran, store,
                   enc, merged>>

\* sgd.rs:42   step returns
StepReturn ==
    /\ sgd.stage \in {"scale", "update"} /\ store.state = "ok"
    /\ step_next(sgd.stage) = "idle"
    /\ sgd' = [sgd EXCEPT !.stage = "idle", !.log = Append(@, "return")]
    /\ UNCHANGED <<idVars, macroVars, shapeVars, hand, other, made, queue, ran, store,
                   enc, merged>>

\* Two tensors of one shape are created first, with the first two identifiers:
\* x, which is also the parameter of the module of the optimizer, and alpha.
InitRun(shapes) ==
    /\ IdleAllocator(unique_ids(0, 2).counter) /\ NoMacros /\ NoShapes
    /\ \E shape \in shapes :
         LET n == NumElements(concrete(shape)) IN
         \E xd \in DataFor(n) : \E ad \in AlphaFor(n) :
            /\ hand = Tensor(unique_ids(0, 2).ids[1], xd, shape, strides(shape), "Cpu", NoneTape)
            /\ other = Tensor(unique_ids(0, 2).ids[2], ad, shape, strides(shape), "Cpu", NoneTape)
            /\ made = <<Ghost(hand), Ghost(other)>>
            /\ sgd = [stage |-> "idle", lr |-> DefaultLr, module |-> xd,
                      param |-> unique_ids(0, 2).ids[1], log |-> <<>>]
    /\ queue = <<>> /\ ran = <<>> /\ store = NoStore
    /\ enc = NoEnc /\ merged = NoMerge

\* A chain of operations on one tensor of any of the shapes, then backward.
InitChain == InitRun(TapeShapes)
NextChain ==
    \/ LeakyTrace
    \/ Broadcast
    \/ LeakyRelu
    \/ Mean
    \/ Sum
    \/ Backward
    \/ ReplayNext
SpecChain == InitChain /\ [][NextChain]_vars

\* Operations on two tensors, the encoder block, backward and the optimizer.
InitTape == InitRun(PairShapes)
NextTape ==
    \/ LeakyTrace
    \/ Turn
    \/ LeakyRelu
    \/ Prelu
    \/ Add
    \/ Mean
    \/ Sum
    \/ EncoderForward
    \/ Backward
    \/ ReplayNext
    \/ StepBackward
    \/ StepScale
    \/ StepUpdate
    \/ StepReturn
SpecTape == InitTape /\ [][NextTape]_vars

(***************************************************************************)
(* Properties of the tape, of backward and of the optimizer.               *)
(***************************************************************************)
Reverse(xs) == [k \in 1 .. Len(xs) |-> xs[Len(xs) + 1 - k]]
Count(xs, x) == Cardinality({k \in 1 .. Len(xs) : xs[k] = x})
\* the loss handed to backward is refused: it is no scalar or carries no tape
Refused(t) == Len(t.shape) # 0 \/ ~t.tape.owned
\* the gradients of the store are those backward computed: step has not scaled them
Unscaled == \A k \in 1 .. Len(sgd.log) : sgd.log[k] # "scale"
\* backward has replayed the whole tape, which was Reverse(ran)
Replayed == store.state = "ok" /\ Unscaled

\* C11: backward accepts exactly the rank-0 tensors that carry a tape.  A direct
\* call on any other tensor fails, returns no gradients and replays nothing;
\* Sgd::step on such a loss panics at the unwrap with no gradients and with the
\* module as it was, and does nothing afterwards; on a traced scalar both go on
\* with the store seeded at the loss.
BackwardOnlyForTracedScalar ==
    [][/\ (store' # store /\ sgd' = sgd /\ store.state # "running") =>
             IF Refused(hand)
             THEN store'.state = "failed" /\ store'.g = <<>> /\ queue' = <<>> /\ ran' = ran
             ELSE store'.state \in {"running", "ok"} /\ hand.id \in DOMAIN store'.g
       /\ (sgd.stage = "idle" /\ sgd'.log # sgd.log) =>
             IF Refused(hand)
             THEN /\ sgd'.stage = "panicked" /\ store' = NoStore
                  /\ sgd'.module = sgd.module /\ queue' = <<>> /\ ran' = ran
             ELSE sgd'.stage = "backward" /\ hand.id \in DOMAIN store'.g
       /\ sgd.stage = "panicked" => sgd' = sgd /\ store' = store]_vars

\* Sgd::step panicked on a loss that carries a tape but is no scalar
StepRefusedVectorLoss ==
    /\ sgd.stage = "panicked" /\ sgd.log = <<"backward">>
    /\ Len(hand.shape) = 1 /\ hand.tape.owned /\ Len(hand.tape.ops) = 1

\* the closure of `y` adds to the gradient of the output of `x`: the output of
\* x is an input of y
AddsTo(y, x) == y.inp.id = x.out.id \/ (y.rhs # NoGhost /\ y.rhs.id = x.out.id)

\* C12: the operations of a tape stand in the order they were recorded in;
\* backward seeds the gradient of the output with 1 before it replays anything,
\* replays in strictly reverse order of recording, and when an operation is
\* replayed every operation that adds to the gradient of its output has run.
ReplayInReverseOrder ==
    /\ \A i, j \in 1 .. Len(hand.tape.ops) :
          i < j => hand.tape.ops[i].n < hand.tape.ops[j].n
    /\ \A i, j \in 1 .. Len(queue) : i < j => queue[i].n < queue[j].n
    /\ \A i, j \in 1 .. Len(ran) : i < j => ran[i].n > ran[j].n
    /\ \A i \in 1 .. Len(queue) : \A j \in 1 .. Len(ran) : queue[i].n < ran[j].n
    /\ (store.state \in {"running", "ok"} /\ ran = <<>>) => store.g = (hand.id :> <<ROne>>)
    /\ \A i \in 1 .. Len(ran) :
          /\ \A j \in 1 .. Len(ran) : AddsTo(ran[j], ran[i]) => j < i
          /\ \A j \in 1 .. Len(queue) : ~AddsTo(queue[j], ran[i])

\* trace -> broadcast -> leaky_relu -> mean was differentiated: the closure of
\* mean ran first, that of leaky_relu, on the broadcast view, second
BroadcastChainReplayed ==
    /\ store.state = "ok" /\ Len(ran) = 2
    /\ ran[1].kind = "mean" /\ ran[2].kind = "leaky_relu"
    /\ ran[1].inp.id = ran[2].out.id
    /\ \E k \in 1 .. Len(ran[2].inp.strides) : ran[2].inp.strides[k] = 0

\* the operations of `xs` that are among those of `ys`, in the order of xs
Among(xs, ys) == SelectSeq(xs, LAMBDA o : \E k \in 1 .. Len(ys) : ys[k] = o)
\* the tape backward replayed, in the order of recording
ReplayedTape == Reverse(ran)
\* the store backward starts from on the tape it replayed
Seed == (ran[1].out.id :> <<ROne>>)

\* C13: the tape of the result of prelu(t, alpha) holds the k operations of the
\* tape of t and the m operations of the tape of alpha exactly once each, each
\* tape in its own order, and the closure of prelu after all of them; backward
\* of what follows gives the gradients it gives on the tape with the two parts
\* concatenated the other way round; the gradients of both operands are in the
\* store, also when alpha carried no tape.
MergeLaw ==
    (merged.done /\ merged.l) =>
        LET T == merged.t
            joined == T[Len(T)]
            before_ == SubSeq(T, 1, Len(T) - 1)
        IN /\ Len(T) = Len(merged.a) + Len(merged.b) + 1
           /\ Among(before_, merged.a) = merged.a
           /\ Among(before_, merged.b) = merged.b
           /\ \A k \in 1 .. Len(before_) : Count(T, before_[k]) = 1
           /\ joined.kind = "prelu" /\ Count(T, joined) = 1
           /\ \A k \in 1 .. Len(before_) : before_[k].n < joined.n
           /\ Replayed =>
                /\ SubSeq(ReplayedTape, 1, Len(T)) = T
                /\ store.g = ReplayAll(merged.b \o merged.a \o
                                 SubSeq(ReplayedTape, Len(T), Len(ReplayedTape)), Seed)
                /\ joined.inp.id \in DOMAIN store.g
                /\ joined.rhs.id \in DOMAIN store.g
                /\ Len(store.g[joined.rhs.id]) = Len(joined.rhs.data)

\* prelu joined two tapes of one operation each, and the result was differentiated
TwoTapesMerged ==
    /\ merged.done /\ Len(merged.a) = 1 /\ Len(merged.b) = 1
    /\ Replayed /\ Len(ran) = 3

\* elementwise sum of two gradient buffers
VAdd(u, v) == [k \in 1 .. Len(u) |-> RAdd(u[k], v[k])]
\* what the closure of `op` alone adds to the gradient of `id`: its effect on a
\* store that is zero but for the gradient its output has in the end
Contribution(op, id) ==
    LET z == [i \in DOMAIN store.g |->
                 IF i = op.out.id THEN store.g[i] ELSE Zeros(Len(store.g[i]))]
    IN IF id = op.out.id THEN Zeros(Len(store.g[id])) ELSE Replay(op, z)[id]
\* the seed of `id` and the contributions of the first n closures that ran
RECURSIVE Contributions(_, _)
Contributions(id, n) ==
    IF n = 0 THEN (IF id = ran[1].out.id THEN <<ROne>> ELSE Zeros(Len(store.g[id])))
    ELSE VAdd(Contributions(id, n - 1), Contribution(ran[n], id))
\* the tape with the operations at k and k + 1 exchanged
Swapped(ops, k) == [i \in 1 .. Len(ops) |->
    IF i = k THEN ops[k + 1] ELSE IF i = k + 1 THEN ops[k] ELSE ops[i]]
\* the operations of a tape that take the tensor `id` as an input
Consumers(ops, id) ==
    {k \in 1 .. Len(ops) : ops[k].inp.id = id \/ (ops[k].rhs # NoGhost /\ ops[k].rhs.id = id)}

\* C14: after a full backward pass the gradient of every identifier is the
\* elementwise sum of the seed and of what each closure contributes by itself
\* (nothing is overwritten), and it is the same when two closures that do not
\* feed one another run in the other order; in the encoder block src feeds two
\* of the recorded operations, self-attention and the residual add.
AccumulationLaw ==
    /\ (Replayed /\ ran # <<>>) =>
          /\ \A id \in DOMAIN store.g : store.g[id] = Contributions(id, Len(ran))
          /\ \A k \in 1 .. Len(ran) - 1 :
                ~AddsTo(ReplayedTape[k + 1], ReplayedTape[k]) =>
                    store.g = ReplayAll(Swapped(ReplayedTape, k), Seed)
    /\ (enc.called /\ enc.src.tape.owned) =>
          LET new == SubSeq(hand.tape.ops, Len(enc.src.tape.ops) + 1, Len(hand.tape.ops))
          IN /\ Cardinality(Consumers(new, enc.src.id)) = 2
             /\ \E i, j \in Consumers(new, enc.src.id) :
                   new[i].kind = "self_attn" /\ new[j].kind = "add"

\* the scalar x fed mean and the add after it: its gradient is 1 + 1
TwoClosuresAddToX ==
    /\ Replayed /\ Len(ran) = 2
    /\ ran[2].kind = "mean" /\ ran[2].inp.id = made[1].id
    /\ ran[1].kind = "add" /\ ran[1].rhs.id = made[1].id
    /\ store.g[made[1].id] = <<RInt(2)>>

\* the operations recorded on the tape of hand, left to replay, and replayed
AllOps == hand.tape.ops \o queue \o ran
\* the number of indices of the tensor that are read at offset `off` of its buffer
IndicesAt(t, off) ==
    Cardinality({p \in 1 .. NumElements(concrete(t.shape)) : OffsetAt(t, p - 1) = off})

\* C15: the result of mean is a scalar that is the sum of the N elements of the
\* input divided by N, for inputs of rank 0 to 4; its closure adds g / N for
\* every element, g being the gradient of the result when the closure runs, so
\* that backward of the mean of a tensor leaves exactly 1 / N at every position.
MeanValueAndGradient ==
    /\ \A k \in 1 .. Len(AllOps) :
          LET op == AllOps[k]
              N == NumElements(concrete(op.inp.shape))
          IN op.kind = "mean" =>
                /\ Len(op.inp.shape) \in 0 .. MaxMeanRank
                /\ op.out.shape = <<>> /\ Len(op.out.data) = 1
                /\ RMul(op.out.data[1], RInt(N)) = RSum(Logical(op.inp))
    /\ Replayed =>
          \A k \in 1 .. Len(ran) :
             LET op == ran[k]
                 N == NumElements(concrete(op.inp.shape))
             IN (op.kind = "mean" /\ Cardinality(Consumers(ran, op.inp.id)) = 1) =>
                   /\ \A o \in 1 .. Len(op.inp.data) :
                         store.g[op.inp.id][o] =
                            RMul(RInt(IndicesAt(op.inp, o - 1)),
                                 RDiv(store.g[op.out.id][1], RInt(N)))
                   /\ (k = 1 /\ op.inp.strides = strides(op.inp.shape)) =>
                         store.g[op.inp.id] = [o \in 1 .. N |-> Rat(1, N)]

\* the mean of [[1, 2, 3], [4, 5, 6]] is 3.5 and its gradient 1/6 everywhere
MeanOf2x3 ==
    /\ Replayed /\ Len(ran) = 1 /\ ran[1].kind = "mean"
    /\ concrete(ran[1].inp.shape) = <<2, 3>> /\ ran[1].inp.data = RVec(<<1, 2, 3, 4, 5, 6>>)
    /\ ran[1].out.data = <<Rat(7, 2)>>
    /\ store.g[made[1].id] = [k \in 1 .. 6 |-> Rat(1, 6)]

\* the value is below zero
Negative(x) == x[1] < 0
\* the closure at position k of ran belongs to the loss, or to the operand of the
\* sum that is the loss
UnderSum(k) ==
    \/ k = 1
    \/ k = 2 /\ ran[1].kind = "sum" /\ ran[1].inp.id = ran[2].out.id
             /\ ran[1].inp.strides = strides(ran[1].inp.shape)

\* C16: leaky_relu with slope alpha maps every element x to x * alpha when
\* x < 0 and to x otherwise; its closure adds alpha times the gradient of the
\* result where x < 0 and the gradient of the result elsewhere, so that after
\* sum and backward the gradient of x is alpha where x < 0 and 1 where x >= 0,
\* zero included.
LeakyReluValueAndGradient ==
    /\ \A k \in 1 .. Len(AllOps) :
          LET op == AllOps[k] IN
          op.kind = "leaky_relu" =>
             /\ op.out.shape = op.inp.shape /\ Len(op.out.data) = Len(op.inp.data)
             /\ \A i \in 1 .. Len(op.inp.data) :
                   LET x == op.inp.data[i] IN
                   op.out.data[i] =
                      IF Negative(x) THEN Rat(x[1] * op.alpha[1], x[2] * op.alpha[2]) ELSE x
    /\ Replayed =>
          \A k \in 1 .. Len(ran) :
             LET op == ran[k] IN
             (op.kind = "leaky_relu" /\ Cardinality(Consumers(ran, op.inp.id)) = 1) =>
                \A i \in 1 .. Len(op.inp.data) :
                   LET x == op.inp.data[i]
                       go == store.g[op.out.id][i]
                   IN /\ store.g[op.inp.id][i] =
                            IF Negative(x) THEN RMul(op.alpha, go) ELSE go
                      /\ (UnderSum(k) /\ op.inp.strides = strides(op.inp.shape)) =>
                            store.g[op.inp.id][i] = IF Negative(x) THEN op.alpha ELSE ROne

\* leaky_relu of [-2, -1, 1, 2] with slope 0.5, summed and differentiated
LeakyReluOfTestVector ==
    /\ Replayed /\ Len(ran) = 2 /\ ran[1].kind = "sum" /\ ran[2].kind = "leaky_relu"
    /\ ran[2].inp.data = RVec(<<-2, -1, 1, 2>>) /\ ran[2].alpha = Rat(1, 2)
    /\ ran[2].out.data = <<RInt(-1), Rat(-1, 2), RInt(1), RInt(2)>>
    /\ store.g[made[1].id] = <<Rat(1, 2), Rat(1, 2), ROne, ROne>>

\* leaky_relu with the given slope applied to the left operand of `op`, traced
LeakyOf(op, slope) ==
    try_leaky_relu(put_tape(OfGhost(op.inp), OwnedTape(<<>>)), slope, op.out.id, op.n)

\* C17: prelu(x, alpha) maps every pair of elements to x * alpha when x < 0 and
\* to x otherwise; after sum and backward the gradient of x is alpha where
\* x < 0 and 1 elsewhere, and the gradient of alpha is x where x < 0 and 0
\* elsewhere; when alpha holds one slope everywhere, the value of prelu and the
\* gradient of x are those of leaky_relu with that slope.
PreluValueAndGradient ==
    \A k \in 1 .. Len(AllOps) :
       LET op == AllOps[k]
           N == NumElements(concrete(op.out.shape))
           lone == /\ Replayed /\ k > Len(hand.tape.ops) + Len(queue)
                   /\ op.inp.id # op.rhs.id
                   /\ Cardinality(Consumers(ran, op.inp.id)) = 1
                   /\ Cardinality(Consumers(ran, op.rhs.id)) = 1
       IN op.kind = "prelu" =>
          /\ op.out.shape = op.inp.shape /\ Len(op.out.data) = N
          /\ \A p \in 1 .. N :
                LET x == ElemAt(op.inp, p - 1)
                    a == ElemAt(op.rhs, p - 1)
                IN /\ op.out.data[p] =
                         IF Negative(x) THEN Rat(x[1] * a[1], x[2] * a[2]) ELSE x
                   /\ (lone /\ UnderSum(k - Len(hand.tape.ops) - Len(queue))) =>
                         /\ store.g[op.inp.id][p] = IF Negative(x) THEN a ELSE ROne
                         /\ store.g[op.rhs.id][p] = IF Negative(x) THEN x ELSE RZero
          /\ \A slope \in {op.rhs.data[i] : i \in 1 .. Len(op.rhs.data)} :
                (\A i \in 1 .. Len(op.rhs.data) : op.rhs.data[i] = slope) =>
                   /\ LeakyOf(op, slope).data = op.out.data
                   /\ lone =>
                         Replay(LeakyOf(op, slope).tape.ops[1],
                                (op.out.id :> store.g[op.out.id]))[op.inp.id]
                            = store.g[op.inp.id]

\* prelu of [-2, -1, 1, 2] with alpha [0.25, 0.5, 0, 0], summed and differentiated
PreluOfTestVector ==
    /\ Replayed /\ Len(ran) = 2 /\ ran[1].kind = "sum" /\ ran[2].kind = "prelu"
    /\ ran[2].inp.data = RVec(<<-2, -1, 1, 2>>)
    /\ ran[2].rhs.data = <<Rat(1, 4), Rat(1, 2), RZero, RZero>>
    /\ ran[2].out.data = <<Rat(-1, 2), Rat(-1, 2), RInt(1), RInt(2)>>
    /\ store.g[made[1].id] = <<Rat(1, 4), Rat(1, 2), ROne, ROne>>
    /\ store.g[made[2].id] = RVec(<<-2, -1, 0, 0>>)

\* the layers of the encoder block in the order the tape passes through them
BlockLayers == <<"self_attn", "add", "norm1", "ff", "norm2">>

\* C18: in TransformerEncoderBlock::forward the tape of the input goes to the
\* first of the three duplicates handed to self-attention and to no other; the
\* tape of the result holds the operations recorded on the input before, each
\* exactly once, followed by the operations of attention, the residual add,
\* norm1, the feed-forward block and norm2, each fed by the one before; an
\* input without tape gives a result without tape.
TapeNeverDuplicated ==
    enc.called =>
       LET before_ == enc.src.tape.ops
           T == hand.tape.ops
           new == SubSeq(T, Len(before_) + 1, Len(T))
       IN /\ enc.q.tape = enc.src.tape
          /\ enc.k.tape = NoneTape /\ enc.v.tape = NoneTape
          /\ \A d \in {enc.q, enc.k, enc.v} : Ghost(d) = Ghost(enc.src)
          /\ hand.tape.owned = enc.src.tape.owned
          /\ ~enc.src.tape.owned => T = <<>>
          /\ enc.src.tape.owned =>
                /\ SubSeq(T, 1, Len(before_)) = before_
                /\ \A k \in 1 .. Len(T) : Count(T, T[k]) = 1
                /\ [k \in 1 .. Len(new) |-> new[k].kind] = BlockLayers
                /\ new[1].inp.id = enc.src.id
                /\ \A k \in 2 .. Len(new) : new[k].inp.id = new[k - 1].out.id
                /\ new[Len(new)].out.id = hand.id

\* forward was called on an input that carried a tape with one operation
ForwardOfTracedInput ==
    /\ enc.called /\ enc.src.tape.owned /\ Len(enc.src.tape.ops) = 1
    /\ Len(hand.tape.ops) = 6

\* the gradients backward computed on the tape it replayed, each closure once
GradientsOnce == ReplayAll(ReplayedTape, (hand.id :> <<ROne>>))
\* the statement of Sgd::step that may follow the statement `s` in the log
FollowsInStep(s) ==
    CASE s = "backward" -> "scale"
      [] s = "scale" -> "update"
      [] s = "update" -> "return"
      [] OTHER -> "backward"

LoopsIndexSafe(e) ==
    LET dst == [k \in 1 .. e.dstNum |-> Dim(FALSE, k)]
        src == SrcOf(e, dst)
        c == check(src, dst, e.ax)
        b == broadcast_strides(strides(src), e.dstNum, e.ax)
        r == reduced_loop(concrete(dst), [k \in 1 .. e.srcNum |-> 0], e.ax, 0, 0)
    IN /\ c.ok /\ ~c.oob /\ c.j = e.srcNum
       /\ ~b.oob /\ b.j = e.srcNum
       /\ ~r.oob /\ r.i_dst = e.srcNum
ShapeLoopsIndexSafe == \A k \in 1 .. Len(impls) : LoopsIndexSafe(impls[k])

\* all macros are expanded: the rank-0 impls and one of rank 6 with the kept
\* axes between the reduced ones are declared
Rank0AndRank6LoopsRun ==
    /\ stack = <<>>
    /\ \E k \in 1 .. Len(impls) : impls[k].dstNum = 0 /\ impls[k].ax = <<0>>
    /\ \E k \in 1 .. Len(impls) :
          impls[k].dstNum = 6 /\ impls[k].srcNum = 3 /\ impls[k].ax = <<0, 2, 4>>
====
